---- MODULE Spec2Model ----
(***************************************************************************)
(* A model of pydbrelay (src/pydbrelay.py): the DB-API type objects, the   *)
(* DBRelayData view over the relay's JSON response, the Cursor and the     *)
(* Connection.  Python values are modelled as records; an operation that   *)
(* can raise returns a record whose exc field names the exception class    *)
(* ("none" when the call returns normally).                                *)
(***************************************************************************)
EXTENDS Integers, Sequences, FiniteSets, TLC

\* ------------------------------------------------------------------------
\* Bounds of the model
\* ------------------------------------------------------------------------

\* largest explicit size argument given to fetchmany
MaxFetch == 3
\* longest seq_of_parameters given to executemany
MaxBatch == 1

\* ------------------------------------------------------------------------
\* Python values: JSON scalars on the wire and the objects coercion makes
\* ------------------------------------------------------------------------

\* tag "null": None; "int": a JSON number n; "str": text, s its characters;
\* "decimal": decimal.Decimal of the text s; "date"/"time"/"datetime": a
\* datetime object with the components parts.
NoneV == [tag |-> "null", n |-> 0, s |-> <<>>, parts |-> <<>>]
IntV(n) == [tag |-> "int", n |-> n, s |-> <<>>, parts |-> <<>>]
StrV(s) == [tag |-> "str", n |-> 0, s |-> s, parts |-> <<>>]
DecV(s) == [tag |-> "decimal", n |-> 0, s |-> s, parts |-> <<>>]
DateV(kind, parts) == [tag |-> kind, n |-> 0, s |-> <<>>, parts |-> parts]

DigitChars == <<"0", "1", "2", "3", "4", "5", "6", "7", "8", "9">>

\* the decimal digits of a natural number, most significant first
RECURSIVE NatDigits(_)
NatDigits(n) ==
    IF n < 10 THEN <<DigitChars[n + 1]>>
    ELSE Append(NatDigits(n \div 10), DigitChars[(n % 10) + 1])

\* str(item)
PyStr(item) ==
    CASE item.tag = "int" ->
           StrV(IF item.n < 0 THEN <<"-">> \o NatDigits(0 - item.n) ELSE NatDigits(item.n))
      [] item.tag = "null" -> StrV(<<"N", "o", "n", "e">>)
      [] OTHER -> StrV(item.s)

\* the outcome of a call: exc = "none" and a value, or an exception class
Ok(v) == [exc |-> "none", val |-> v]
Raise(e) == [exc |-> e, val |-> NoneV]

\* ------------------------------------------------------------------------
\* Exceptions (the DB-API hierarchy and the built-in ones that can escape)
\* ------------------------------------------------------------------------

\* direct base class of each exception class of the module
BaseOf(e) ==
    CASE e = "Error" -> "StandardError"
      [] e = "Warning" -> "StandardError"
      [] e = "InterfaceError" -> "Error"
      [] e = "DatabaseError" -> "Error"
      [] e \in {"InternalError", "OperationalError", "ProgrammingError",
                "IntegrityError", "DataError", "NotSupportedError"} -> "DatabaseError"
      [] OTHER -> "StandardError"

\* isinstance(exception of class e, cls), as an except clause tests it
RECURSIVE IsA(_, _)
IsA(e, cls) ==
    IF e = cls THEN TRUE
    ELSE IF e = "StandardError" \/ e = "none" THEN FALSE
    ELSE IsA(BaseOf(e), cls)

\* ------------------------------------------------------------------------
\* Text helpers used by the date and time coercions
\* ------------------------------------------------------------------------

\* re.split('[<seps>]', item): the pieces of chars between separator characters
SplitCons(ch, seps, rest) ==
    IF ch \in seps THEN << <<>> >> \o rest
    ELSE << <<ch>> \o Head(rest) >> \o Tail(rest)

RECURSIVE ReSplit(_, _)
ReSplit(chars, seps) ==
    IF chars = <<>> THEN << <<>> >>
    ELSE SplitCons(Head(chars), seps, ReSplit(Tail(chars), seps))

DigitValue(ch) == CHOOSE d \in 0..9 : DigitChars[d + 1] = ch

IsDigits(chars) ==
    /\ chars # <<>>
    /\ \A i \in 1..Len(chars) : \E d \in 0..9 : DigitChars[d + 1] = chars[i]

\* int(text) for a text of decimal digits (any other text raises ValueError)
RECURSIVE PyInt(_)
PyInt(chars) ==
    IF Len(chars) = 1 THEN DigitValue(chars[1])
    ELSE 10 * PyInt(SubSeq(chars, 1, Len(chars) - 1)) + DigitValue(chars[Len(chars)])

\* text.ljust(width, '0')
RECURSIVE LJustZero(_, _)
LJustZero(chars, width) ==
    IF Len(chars) >= width THEN chars ELSE LJustZero(Append(chars, "0"), width)

\* raw.extend([u'0'] * (n - len(raw)))
RECURSIVE ExtendZero(_, _)
ExtendZero(raw, n) ==
    IF Len(raw) >= n THEN raw ELSE ExtendZero(Append(raw, <<"0">>), n)

\* micro = int(str(micro).ljust(6, '0'))
PadMicro(micro) == PyInt(LJustZero(NatDigits(micro), 6))

IsLeap(yr) == (yr % 4 = 0 /\ yr % 100 # 0) \/ yr % 400 = 0

DaysInMonth(yr, mo) ==
    IF mo = 2 THEN (IF IsLeap(yr) THEN 29 ELSE 28)
    ELSE IF mo \in {4, 6, 9, 11} THEN 30 ELSE 31

\* the argument checks of datetime.date(yr, mo, day)
ValidDate(yr, mo, day) ==
    /\ yr \in 1..9999
    /\ mo \in 1..12
    /\ day >= 1 /\ day <= DaysInMonth(yr, mo)

\* the argument checks of datetime.time(hour, minute, second, micro)
ValidTime(hour, minute, second, micro) ==
    /\ hour \in 0..23
    /\ minute \in 0..59
    /\ second \in 0..59
    /\ micro \in 0..999999

\* ------------------------------------------------------------------------
\* DBAPITypeObject and its subclasses
\* ------------------------------------------------------------------------

STRING_values == {"char", "guid", "text", "varchar", "wchar", "wvarchar"}
BINARY_values == {"binary", "blob", "enum", "geometry", "image", "money",
                  "smallmoney", "varbinary"}
NUMBER_values == {"bigint", "bit", "double", "int", "int24", "integer", "float",
                  "longint", "longlong", "real", "shortint", "tinyint", "year",
                  "decimal", "numeric"}
DATETIME_values == {"date", "time", "datetime", "smalldatetime", "timestamp"}
ROWID_values == {}

\* DBAPITypeObject.__cmp__(self, other), with values = self.values: "0" when
\* other is a member; otherwise min(self.values) is evaluated, which raises
\* ValueError on an empty set and else gives a nonzero result.
DBAPITypeObject_cmp(values, other) ==
    IF other \in values THEN "0"
    ELSE IF values = {} THEN "ValueError"
    ELSE "nonzero"

\* DBAPIString.to_object and DBAPIBinary.to_object
DBAPIString_to_object(item, type) == Ok(PyStr(item))

\* DBAPINumber.to_object
DBAPINumber_to_object(item, type) ==
    IF type \in {"decimal", "numeric"} THEN Ok(DecV(PyStr(item).s)) ELSE Ok(item)

\* map(int, raw) followed by the tuple unpacking into n names: the numbers,
\* or <<>> when int() or the unpacking raises ValueError
ParseParts(raw, n) ==
    IF Len(raw) # n \/ \E i \in 1..Len(raw) : ~IsDigits(raw[i])
    THEN <<>>
    ELSE [i \in 1..n |-> PyInt(raw[i])]

\* datetime.date(yr, mo, day) for the parsed numbers p
MakeDate(p) ==
    IF p = <<>> THEN Raise("ValueError")
    ELSE IF ~ValidDate(p[1], p[2], p[3]) THEN Raise("ValueError")
    ELSE Ok(DateV("date", p))

\* datetime.time(hour, minute, second, micro)
MakeTimeOf(hour, minute, second, micro) ==
    IF ~ValidTime(hour, minute, second, micro) THEN Raise("ValueError")
    ELSE Ok(DateV("time", <<hour, minute, second, micro>>))

MakeTime(p) ==
    IF p = <<>> THEN Raise("ValueError")
    ELSE MakeTimeOf(p[1], p[2], p[3], PadMicro(p[4]))

\* datetime.datetime(yr, mo, day, hour, minute, second, micro)
MakeDateTimeOf(yr, mo, day, hour, minute, second, micro) ==
    IF ~ValidDate(yr, mo, day) \/ ~ValidTime(hour, minute, second, micro)
    THEN Raise("ValueError")
    ELSE Ok(DateV("datetime", <<yr, mo, day, hour, minute, second, micro>>))

MakeDateTime(p) ==
    IF p = <<>> THEN Raise("ValueError")
    ELSE MakeDateTimeOf(p[1], p[2], p[3], p[4], p[5], p[6], PadMicro(p[7]))

\* DBAPIDateTime.to_object (re.split raises TypeError on a number)
DBAPIDateTime_to_object(item, type) ==
    IF item.tag # "str" THEN Raise("TypeError")
    ELSE IF type = "date" THEN MakeDate(ParseParts(ReSplit(item.s, {"-"}), 3))
    ELSE IF type = "time"
    THEN MakeTime(ParseParts(ExtendZero(ReSplit(item.s, {":", "."}), 4), 4))
    ELSE IF type \in DATETIME_values
    THEN MakeDateTime(ParseParts(ExtendZero(ReSplit(item.s, {"-", " ", ":", "."}), 7), 7))
    ELSE Ok(item)

\* DBAPITypeObject.to_object (ROWID uses the base class)
DBAPITypeObject_to_object(item, type) == Ok(item)

\* the singletons in the order Cursor._type_map tries them
TypeObjects == <<[name |-> "NUMBER", values |-> NUMBER_values],
                 [name |-> "STRING", values |-> STRING_values],
                 [name |-> "DATETIME", values |-> DATETIME_values],
                 [name |-> "BINARY", values |-> BINARY_values],
                 [name |-> "ROWID", values |-> ROWID_values]>>

\* dbapi_type.to_object(element, sql_type), dispatched on the singleton
to_object(dbapi_type, element, sql_type) ==
    CASE dbapi_type.name = "NUMBER" -> DBAPINumber_to_object(element, sql_type)
      [] dbapi_type.name = "STRING" -> DBAPIString_to_object(element, sql_type)
      [] dbapi_type.name = "BINARY" -> DBAPIString_to_object(element, sql_type)
      [] dbapi_type.name = "DATETIME" -> DBAPIDateTime_to_object(element, sql_type)
      [] OTHER -> DBAPITypeObject_to_object(element, sql_type)

\* one turn of the loop of Cursor._type_map: c is the result of comparing
\* sql_type with the k-th singleton
RECURSIVE TypeDispatch(_, _, _)
TypeStep(k, element, sql_type, c) ==
    IF c = "ValueError" THEN Raise("ValueError")
    ELSE IF c = "0" THEN to_object(TypeObjects[k], element, sql_type)
    ELSE TypeDispatch(k + 1, element, sql_type)

\* the loop of Cursor._type_map from the k-th singleton on
TypeDispatch(k, element, sql_type) ==
    IF k > Len(TypeObjects) THEN Ok(element)
    ELSE TypeStep(k, element, sql_type,
                  DBAPITypeObject_cmp(TypeObjects[k].values, sql_type))

\* Cursor._type_map(element, sql_type)
type_map(element, sql_type) ==
    IF element.tag = "null" \/ sql_type = "null" THEN Ok(NoneV)
    ELSE TypeDispatch(1, element, sql_type)

\* ------------------------------------------------------------------------
\* The JSON tree of a response and DBRelayData, the view over it
\* ------------------------------------------------------------------------

\* A field of a result set: {"name", "sql_type", "precision"?, "scale"?}
Field(name, sql_type) ==
    [name |-> name, sql_type |-> sql_type, hasPrecision |-> FALSE, precision |-> 0,
     hasScale |-> FALSE, scale |-> 0]
FieldPS(name, sql_type, precision, scale) ==
    [name |-> name, sql_type |-> sql_type, hasPrecision |-> TRUE, precision |-> precision,
     hasScale |-> TRUE, scale |-> scale]

\* A row object of the JSON tree: its members as <<key, value>> entries
Cell(k, v) == [k |-> k, v |-> v]

\* A JSON tree: falsy is the empty object (or null); otherwise an object
\* with an optional "log" member (logTruthy: a non-empty object; hasError:
\* it has an "error" key, whose value is error) and an optional "data"
\* member (an array of result sets).
Json(hasLog, logTruthy, hasError, error, hasData, data) ==
    [falsy |-> FALSE, hasLog |-> hasLog, logTruthy |-> logTruthy, hasError |-> hasError,
     error |-> error, hasData |-> hasData, data |-> data]
EmptyJson ==
    [falsy |-> TRUE, hasLog |-> FALSE, logTruthy |-> FALSE, hasError |-> FALSE,
     error |-> "", hasData |-> FALSE, data |-> <<>>]

\* a Python list or None
NoneList == [isNone |-> TRUE, list |-> <<>>]
SomeList(l) == [isNone |-> FALSE, list |-> l]
\* truth value of a list or None
Truthy(x) == ~x.isNone /\ x.list # <<>>

\* DBRelayData.__init__(data): "ok", or the exception raised
DBRelayData_init(json) == IF json.falsy THEN "ValueError" ELSE "none"

\* DBRelayData.error: self._json['log'] raises KeyError without the member;
\* otherwise log['error'] if log and 'error' in log else None
DBRelayData_error(json) ==
    IF ~json.hasLog THEN [exc |-> "KeyError", isNone |-> TRUE, msg |-> ""]
    ELSE IF json.logTruthy /\ json.hasError
         THEN [exc |-> "none", isNone |-> FALSE, msg |-> json.error]
         ELSE [exc |-> "none", isNone |-> TRUE, msg |-> ""]

\* DBRelayData.data
DBRelayData_data(json) == IF json.hasData THEN SomeList(json.data) ELSE NoneList

\* the test "self.data and 0 <= idx and idx < len(self.data)"
ValidIdxIn(data, idx) == Truthy(data) /\ 0 <= idx /\ idx < Len(data.list)
ValidIdx(json, idx) == ValidIdxIn(DBRelayData_data(json), idx)

\* DBRelayData.get_fields(idx)
get_fields(json, idx) ==
    IF ValidIdx(json, idx) THEN SomeList(json.data[idx + 1].fields) ELSE NoneList

\* DBRelayData.get_sql_types(idx)
SqlTypesOf(fields) ==
    IF Truthy(fields) THEN [i \in 1..Len(fields.list) |-> fields.list[i].sql_type]
    ELSE <<>>
get_sql_types(json, idx) == SqlTypesOf(get_fields(json, idx))

\* DBRelayData.get_names(idx)
NamesOf(fields) ==
    IF Truthy(fields) THEN [i \in 1..Len(fields.list) |-> fields.list[i].name]
    ELSE <<>>
get_names(json, idx) == NamesOf(get_fields(json, idx))

\* an optional integer: None or a number
NoneInt == [has |-> FALSE, v |-> 0]
SomeInt(n) == [has |-> TRUE, v |-> n]

\* DBRelayData.get_precisions(idx): iterating None raises TypeError
PrecisionsOf(fields) ==
    IF fields.isNone THEN [exc |-> "TypeError", list |-> <<>>]
    ELSE [exc |-> "none",
          list |-> [i \in 1..Len(fields.list) |->
                      IF fields.list[i].hasPrecision
                      THEN SomeInt(fields.list[i].precision) ELSE NoneInt]]
get_precisions(json, idx) == PrecisionsOf(get_fields(json, idx))

\* DBRelayData.get_scales(idx): iterating None raises TypeError
ScalesOf(fields) ==
    IF fields.isNone THEN [exc |-> "TypeError", list |-> <<>>]
    ELSE [exc |-> "none",
          list |-> [i \in 1..Len(fields.list) |->
                      IF fields.list[i].hasScale
                      THEN SomeInt(fields.list[i].scale) ELSE NoneInt]]
get_scales(json, idx) == ScalesOf(get_fields(json, idx))

\* DBRelayData.get_blanks(idx): the number of None entries
BlanksOf(fields) == IF Truthy(fields) THEN Len(fields.list) ELSE 0
get_blanks(json, idx) == BlanksOf(get_fields(json, idx))

\* DBRelayData.get_rows(idx)
get_rows(json, idx) ==
    IF ValidIdx(json, idx) THEN SomeList(json.data[idx + 1].rows) ELSE NoneList

\* ------------------------------------------------------------------------
\* Cursor
\* ------------------------------------------------------------------------

\* one entry of Cursor.description
DescTuple(name, type_code, display_size, internal_size, precision, scale) ==
    [name |-> name, type_code |-> type_code, display_size |-> display_size,
     internal_size |-> internal_size, precision |-> precision, scale |-> scale]

\* an optional text: None or a string
NoneStr == [has |-> FALSE, s |-> ""]
SomeStr(s) == [has |-> TRUE, s |-> s]

Min2(a, b) == IF a <= b THEN a ELSE b

\* Cursor.__init__: loaded says whether _data is a DBRelayData (then json is
\* its _json); hasDesc says whether description is a list
NewCursor ==
    [open |-> TRUE, loaded |-> FALSE, json |-> EmptyJson, set_idx |-> -1, row_idx |-> -1,
     hasDesc |-> FALSE, description |-> <<>>, rowcount |-> -1, arraysize |-> 1]

\* zip(names, type_codes, display_sizes, internal_size, precisions, scales),
\* which stops at the shortest list; every blank is None
ZipDescription(names, blanks, precisions, scales) ==
    [i \in 1..Min2(Min2(Len(names), blanks), Min2(Len(precisions), Len(scales))) |->
        DescTuple(names[i], NoneStr, NoneInt, NoneInt, precisions[i], scales[i])]

SetDescriptionOf(cur, names, blanks, precisions, scales) ==
    IF precisions.exc # "none" THEN [cur |-> cur, exc |-> precisions.exc]
    ELSE IF scales.exc # "none" THEN [cur |-> cur, exc |-> scales.exc]
    ELSE [cur |-> [cur EXCEPT !.hasDesc = TRUE,
                              !.description = ZipDescription(names, blanks, precisions.list,
                                                             scales.list)],
          exc |-> "none"]

\* Cursor._set_description(idx)
set_description(cur, idx) ==
    SetDescriptionOf(cur, get_names(cur.json, idx), get_blanks(cur.json, idx),
                     get_precisions(cur.json, idx), get_scales(cur.json, idx))

\* the end of Cursor.nextset: d is what _set_description did
NextsetDone(d) ==
    [cur |-> d.cur, exc |-> d.exc, val |-> IF d.exc = "none" THEN "True" ELSE "None"]

\* NextsetIn with the bound test off by one
NextsetIn_PastLast(cur, data) ==
    IF ~Truthy(data) \/ cur.set_idx > Len(data.list) - 1
    THEN [cur |-> cur, exc |-> "none", val |-> "None"]
    ELSE NextsetDone(set_description([cur EXCEPT !.set_idx = cur.set_idx + 1, !.row_idx = 0],
                                     cur.set_idx + 1))

\* the tests of Cursor.nextset on self._data.data, and the move
NextsetIn(cur, data) ==
    IF ~Truthy(data) \/ cur.set_idx >= Len(data.list) - 1
    THEN [cur |-> cur, exc |-> "none", val |-> "None"]
    ELSE NextsetDone(set_description([cur EXCEPT !.set_idx = cur.set_idx + 1, !.row_idx = 0],
                                     cur.set_idx + 1))

\* Cursor.nextset(): val is "True" or "None"
nextset(cur) ==
    IF ~cur.open THEN [cur |-> cur, exc |-> "InternalError", val |-> "None"]
    ELSE IF ~cur.loaded THEN [cur |-> cur, exc |-> "none", val |-> "None"]
    ELSE NextsetIn(cur, DBRelayData_data(cur.json))

\* row[col] for a row object of the JSON tree
HasKey(row, col) == \E i \in 1..Len(row) : row[i].k = col
Lookup(row, col) == row[CHOOSE i \in 1..Len(row) : row[i].k = col].v

\* map(self._type_map, elements, sql_types): the first exception escapes
RECURSIVE MapTypeMap(_, _, _, _)
MapStep(elements, sql_types, i, acc, r) ==
    IF r.exc # "none" THEN [exc |-> r.exc, list |-> <<>>]
    ELSE MapTypeMap(elements, sql_types, i + 1, Append(acc, r.val))

MapTypeMap(elements, sql_types, i, acc) ==
    IF i > Len(elements) THEN [exc |-> "none", list |-> acc]
    ELSE MapStep(elements, sql_types, i, acc, type_map(elements[i], sql_types[i]))

\* the result of a fetchone call: exc, or row (a list or None)
FetchRaise(cur, e, msg) == [cur |-> cur, exc |-> e, msg |-> msg, row |-> NoneList]
FetchReturn(cur, row) == [cur |-> cur, exc |-> "none", msg |-> "", row |-> row]

\* the end of Cursor.fetchone: the mapped row is returned and the row index
\* advanced, unless _type_map raised
FetchoneMapped(cur, mapped) ==
    IF mapped.exc # "none" THEN FetchRaise(cur, mapped.exc, "")
    ELSE FetchReturn([cur EXCEPT !.row_idx = cur.row_idx + 1], SomeList(mapped.list))

\* elements = [row[col] for col in cols], then the map over them
FetchoneRow(cur, row, cols, sql_types) ==
    IF \E i \in 1..Len(cols) : ~HasKey(row, cols[i]) THEN FetchRaise(cur, "KeyError", "")
    ELSE FetchoneMapped(cur, MapTypeMap([i \in 1..Len(cols) |-> Lookup(row, cols[i])],
                                        sql_types, 1, <<>>))

\* rows[i] of a Python list: a negative index counts from the end
PyIndex(list, i) == IF i < 0 THEN list[i + Len(list) + 1] ELSE list[i + 1]

FetchoneRows(cur, rows) ==
    \* len(None)
    IF rows.isNone THEN FetchRaise(cur, "TypeError", "")
    ELSE IF cur.row_idx >= Len(rows.list) THEN FetchReturn(cur, NoneList)
    ELSE IF cur.row_idx + Len(rows.list) < 0 THEN FetchRaise(cur, "IndexError", "")
    ELSE FetchoneRow(cur, PyIndex(rows.list, cur.row_idx), get_names(cur.json, cur.set_idx),
                     get_sql_types(cur.json, cur.set_idx))

\* FetchoneIn with the empty result treated like an exhausted one
FetchoneIn_EmptyReturnsNone(cur, data) ==
    IF ~Truthy(data) THEN FetchReturn(cur, NoneList)
    ELSE IF cur.set_idx >= Len(data.list) THEN FetchReturn(cur, NoneList)
    ELSE FetchoneRows(cur, get_rows(cur.json, cur.set_idx))

\* the tests of Cursor.fetchone on self._data.data
FetchoneIn(cur, data) ==
    IF ~Truthy(data) THEN FetchRaise(cur, "Error", "Empty result set.")
    ELSE IF cur.set_idx >= Len(data.list) THEN FetchReturn(cur, NoneList)
    ELSE FetchoneRows(cur, get_rows(cur.json, cur.set_idx))

\* Cursor.fetchone()
fetchone(cur) ==
    IF ~cur.open THEN FetchRaise(cur, "InternalError", "pydbrelay Cursor is closed.")
    ELSE IF ~cur.loaded THEN FetchRaise(cur, "Error", "No result set.")
    ELSE FetchoneIn(cur, DBRelayData_data(cur.json))

\* the result of fetchmany and fetchall: exc, or rows (a list of rows)
ManyRaise(r) == [cur |-> r.cur, exc |-> r.exc, msg |-> r.msg, rows |-> <<>>]
ManyReturn(cur, rows) == [cur |-> cur, exc |-> "none", msg |-> "", rows |-> rows]

\* the loop of Cursor.fetchmany from iteration i on: first is the row the
\* iteration tests, second the one it appends
RECURSIVE FetchManyLoop(_, _, _, _)
FetchManySecond(second, i, size, result) ==
    IF second.exc # "none" THEN ManyRaise(second)
    ELSE FetchManyLoop(second.cur, i + 1, size, Append(result, second.row))

FetchManyFirst(first, i, size, result) ==
    IF first.exc # "none" THEN ManyRaise(first)
    ELSE IF ~Truthy(first.row) THEN ManyReturn(first.cur, result)
    ELSE FetchManySecond(fetchone(first.cur), i, size, result)

FetchManyLoop(cur, i, size, result) ==
    IF i >= size THEN ManyReturn(cur, result)
    ELSE FetchManyFirst(fetchone(cur), i, size, result)

\* Cursor.fetchmany(size): given = FALSE stands for size=None
fetchmany(cur, given, size) ==
    IF ~cur.open
    THEN [cur |-> cur, exc |-> "InternalError", msg |-> "pydbrelay Cursor is closed.",
          rows |-> <<>>]
    ELSE FetchManyLoop(cur, 0, IF given THEN size ELSE cur.arraysize, <<>>)

\* the loop of Cursor.fetchall, entered with the row just fetched
RECURSIVE FetchAllLoop(_, _)
FetchAllLoop(last, result) ==
    IF last.exc # "none" THEN ManyRaise(last)
    ELSE IF ~Truthy(last.row) THEN ManyReturn(last.cur, result)
    ELSE FetchAllLoop(fetchone(last.cur), Append(result, last.row))

\* Cursor.fetchall()
fetchall(cur) ==
    IF ~cur.open
    THEN [cur |-> cur, exc |-> "InternalError", msg |-> "pydbrelay Cursor is closed.",
          rows |-> <<>>]
    ELSE FetchAllLoop(fetchone(cur), <<>>)

\* Cursor.close() that keeps the description
close_KeepsDescription(cur) ==
    [cur EXCEPT !.open = FALSE, !.loaded = FALSE, !.json = EmptyJson]

\* Cursor.close()
close(cur) ==
    [cur EXCEPT !.open = FALSE, !.loaded = FALSE, !.json = EmptyJson,
                !.hasDesc = FALSE, !.description = <<>>]

\* Cursor._assertOpen(), as used by setinputsizes and setoutputsize
assertOpen(cur) == IF ~cur.open THEN "InternalError" ELSE "none"

\* ------------------------------------------------------------------------
\* Requests, replies and Cursor.execute
\* ------------------------------------------------------------------------

\* the sql text without the comment line that names the connection
SqlText_NoComment(connection_name, operation) == <<operation>>

\* '-- %s\n%s' % (params['connection_name'], operation), as its pieces
SqlText(connection_name, operation) == <<"-- ", connection_name, "\n", operation>>

\* what urllib2.urlopen and json.load give for one request: a JSON tree, or
\* URLError from the transport, or ValueError from the JSON decoder
JsonReply(json) == [kind |-> "json", json |-> json]
TransportFailure == [kind |-> "URLError", json |-> EmptyJson]
MalformedJson == [kind |-> "ValueError", json |-> EmptyJson]

\* no reply: the call sent no request
NoReply == [kind |-> "none", json |-> EmptyJson]

\* the result of an execute call: exc "none" or the exception raised, the
\* requests sent and the last reply received
ExecRaise(cur, params, e, msg, reqs, reply) ==
    [cur |-> cur, params |-> params, exc |-> e, msg |-> msg, reqs |-> reqs,
     reply |-> reply]

\* the end of Cursor.execute: n is what self.nextset() did
ExecuteNextset(n, sent, reply) == ExecRaise(n.cur, sent, n.exc, "", <<sent>>, reply)

\* the error test of Cursor.execute, then the first result set
ExecuteError(held, sent, reply, error) ==
    IF error.exc # "none" THEN ExecRaise(held, sent, error.exc, "", <<sent>>, reply)
    \* "if self._data.error": None and '' are false
    ELSE IF ~error.isNone /\ error.msg # ""
    THEN ExecRaise(held, sent, "DatabaseError", error.msg, <<sent>>, reply)
    ELSE ExecuteNextset(nextset([held EXCEPT !.set_idx = -1]), sent, reply)

\* the request is sent with the map sent, and the reply parsed
ExecuteSent(cur, sent, reply) ==
    IF reply.kind # "json" THEN ExecRaise(cur, sent, reply.kind, "", <<sent>>, reply)
    ELSE IF DBRelayData_init(reply.json) # "none"
    THEN ExecRaise(cur, sent, DBRelayData_init(reply.json), "No data!", <<sent>>, reply)
    ELSE ExecuteError([cur EXCEPT !.loaded = TRUE, !.json = reply.json], sent, reply,
                      DBRelayData_error(reply.json))

\* execute with the sql entry written before the open flag is tested
execute_WritesBeforeAssert(cur, params, operation, reply) ==
    IF ~cur.open
    THEN ExecRaise(cur, [params EXCEPT !.sql = SqlText(params.connection_name, operation)],
                   "InternalError", "pydbrelay Cursor is closed.", <<>>, NoReply)
    ELSE ExecuteSent(cur, [params EXCEPT !.sql = SqlText(params.connection_name, operation)],
                     reply)

\* Cursor.execute(operation) with the connection's params map and the reply
\* the relay gives; reqs lists the requests sent (the encoded map)
execute(cur, params, operation, reply) ==
    IF ~cur.open
    THEN ExecRaise(cur, params, "InternalError", "pydbrelay Cursor is closed.", <<>>,
                   NoReply)
    ELSE ExecuteSent(cur, [params EXCEPT !.sql = SqlText(params.connection_name, operation)],
                     reply)

\* ------------------------------------------------------------------------
\* What the relay can answer
\* ------------------------------------------------------------------------

\* the spec's example result set: one int column, two rows
RS_A == [fields |-> <<Field("a", "int")>>,
         rows |-> << <<Cell("a", IntV(1))>>, <<Cell("a", IntV(2))>> >>]

\* three rows over an int, a decimal and a varchar column, with a null cell
\* and a number in the varchar column
RS_3 == [fields |-> <<Field("a", "int"), FieldPS("d", "decimal", 5, 2), Field("b", "varchar")>>,
         rows |-> << <<Cell("a", IntV(1)), Cell("d", StrV(<<"1", ".", "5", "0">>)),
                       Cell("b", StrV(<<"x">>))>>,
                     <<Cell("a", IntV(2)), Cell("d", IntV(3)), Cell("b", NoneV)>>,
                     <<Cell("a", IntV(3)), Cell("d", NoneV), Cell("b", IntV(7))>> >>]

\* a result set without columns: three empty row objects
RS_Z == [fields |-> <<>>, rows |-> << <<>>, <<>>, <<>> >>]

\* a result set without rows
RS_E == [fields |-> <<Field("a", "int")>>, rows |-> <<>>]

\* a column whose wire type is in no category
RS_U == [fields |-> <<Field("s", "smallint")>>, rows |-> << <<Cell("s", IntV(5))>> >>]

\* a "log" member: absent, an empty object, or an object with an "error"
NoLog == [hasLog |-> FALSE, logTruthy |-> FALSE, hasError |-> FALSE, error |-> ""]
EmptyLog == [hasLog |-> TRUE, logTruthy |-> FALSE, hasError |-> FALSE, error |-> ""]
ErrorLog(msg) == [hasLog |-> TRUE, logTruthy |-> TRUE, hasError |-> TRUE, error |-> msg]

\* the messages of the "error" key
Messages == {"", "bad sql"}

\* the "data" member: absent, or an array of result sets
Datas == {NoneList, SomeList(<<>>), SomeList(<<RS_A>>), SomeList(<<RS_3, RS_E, RS_A>>),
          SomeList(<<RS_Z, RS_U>>)}

JsonOf(l, d) == Json(l.hasLog, l.logTruthy, l.hasError, l.error, ~d.isNone, d.list)

\* the responses: every data under a log without error; with an error, or
\* without the "log" member, no data or the example's result set
Documents ==
    {JsonOf(EmptyLog, d) : d \in Datas}
        \cup {JsonOf(l, d) : l \in {NoLog} \cup {ErrorLog(m) : m \in Messages},
                             d \in {NoneList, SomeList(<<RS_A>>)}}

Replies == {JsonReply(j) : j \in Documents \cup {EmptyJson}}
               \cup {TransportFailure, MalformedJson}

\* the statements a caller executes
CanarySql == "select 1 as a"
Operations == {CanarySql, "select 2"}

\* ------------------------------------------------------------------------
\* Cursor.executemany and Connection
\* ------------------------------------------------------------------------

\* Cursor.executemany(operation, seq_of_parameters) for n parameter sets:
\* the outcomes over the replies the relay can give, reqs being the requests
\* sent so far
RECURSIVE ExecManyLoop(_, _, _, _, _, _, _)
ExecManyStep(r, operation, n, reqs, replies) ==
    IF r.exc # "none"
    THEN {ExecRaise(r.cur, r.params, r.exc, r.msg, reqs \o r.reqs, r.reply)}
    ELSE ExecManyLoop(r.cur, r.params, operation, n - 1, reqs \o r.reqs, r.reply, replies)

ExecManyLoop(cur, params, operation, n, reqs, last, replies) ==
    IF n = 0 THEN {ExecRaise(cur, params, "none", "", reqs, last)}
    ELSE UNION {ExecManyStep(execute(cur, params, operation, reply), operation, n, reqs,
                             replies) : reply \in replies}

executemany(cur, params, operation, n, replies) ==
    IF ~cur.open
    THEN {ExecRaise(cur, params, "InternalError", "pydbrelay Cursor is closed.", <<>>,
                    NoReply)}
    ELSE ExecManyLoop(cur, params, operation, n, <<>>, NoReply, replies)

\* the params map Connection.__init__ builds from the arguments of connect()
ConnectParams ==
    [sql_server |-> "server", sql_database |-> "db", sql_user |-> "user",
     sql_password |-> "secret", connection_name |-> "pydbrelay", http_keepalive |-> 0,
     sql |-> <<>>]

\* no Connection yet
NoParams ==
    [sql_server |-> "", sql_database |-> "", sql_user |-> "", sql_password |-> "",
     connection_name |-> "", http_keepalive |-> 0, sql |-> <<>>]

\* the end of Connection.__init__: f is what the try block did; "except
\* Error" turns it into DatabaseError and the finally closes the cursor
ConnectionFinally(e, f) ==
    [canary |-> close(f.cur),
     params |-> e.params,
     reqs |-> e.reqs,
     reply |-> e.reply,
     exc |-> IF IsA(f.exc, "Error") THEN "DatabaseError" ELSE f.exc,
     msg |-> IF IsA(f.exc, "Error") THEN "Unable to connect to database." ELSE f.msg]

\* cur.fetchone() in the try block, reached when cur.execute returned
ConnectionTry(e) ==
    IF e.exc = "none" THEN ConnectionFinally(e, fetchone(e.cur))
    ELSE ConnectionFinally(e, FetchRaise(e.cur, e.exc, e.msg))

\* Connection.__init__: the canary statement on a fresh cursor
Connection_init(reply) == ConnectionTry(execute(NewCursor, ConnectParams, CanarySql, reply))

\* Connection.cursor() without the test of the connection's open flag
Connection_cursor_IgnoresClosed(open) == [exc |-> "none", msg |-> "", made |-> <<NewCursor>>]

\* Connection.cursor()
Connection_cursor(open) ==
    IF ~open THEN [exc |-> "Error", msg |-> "pydbrelay Connection is closed.", made |-> <<>>]
    ELSE [exc |-> "none", msg |-> "", made |-> <<NewCursor>>]

\* ------------------------------------------------------------------------
\* State
\* ------------------------------------------------------------------------

VARIABLES
    phase,      \* "init": connect() not called; "connected"; "failed": it raised
    conn_open,  \* Connection._open
    params,     \* Connection.params
    canary,     \* the cursor of the canary statement, once made
    cursors,    \* the cursors made by Connection.cursor(), in creation order
    calls,      \* per cursor, the execute call a thread is inside of, if any
    ret         \* the last call: what it returned or raised and what it sent

vars == <<phase, conn_open, params, canary, cursors, calls, ret>>

\* the record of a call: op on cursor c (0: the connection); exc "none" or
\* the exception raised, with its message; val, row, rows: the value
\* returned; reqs: the requests sent to the relay during the call; reply:
\* the last reply it received; size: the size argument of fetchmany (-1:
\* not given, or another call); operation: the operation argument of execute
\* and executemany ("" for another call)
Ret(op, c, exc, msg, val, row, rows, reqs, reply) ==
    [op |-> op, c |-> c, exc |-> exc, msg |-> msg, val |-> val, row |-> row,
     rows |-> rows, reqs |-> reqs, reply |-> reply, size |-> -1, operation |-> ""]

\* a thread's position in Cursor.execute: "idle" outside of it, "send" when
\* it has written params['sql'] for operation and not yet encoded the map
IdleCall == [pc |-> "idle", operation |-> ""]

Init ==
    /\ phase = "init"
    /\ conn_open = FALSE
    /\ params = NoParams
    /\ canary = <<>>
    /\ cursors = <<>>
    /\ calls = <<>>
    /\ ret = Ret("none", 0, "none", "", "None", NoneList, <<>>, <<>>, NoReply)

CursorIds == 1..Len(cursors)

\* ------------------------------------------------------------------------
\* Actions: one per call a caller can make
\* ------------------------------------------------------------------------

\* connect(...): Connection.__init__ with the relay's reply to the canary
Connect(reply) ==
    /\ phase = "init"
    /\ \E r \in {Connection_init(reply)} :
           /\ phase' = IF r.exc = "none" THEN "connected" ELSE "failed"
           /\ conn_open' = (r.exc = "none")
           /\ params' = r.params
           /\ canary' = <<r.canary>>
           /\ ret' = Ret("connect", 0, r.exc, r.msg, "None", NoneList, <<>>, r.reqs, r.reply)
    /\ UNCHANGED <<cursors, calls>>

\* Connection.cursor(), for a caller that makes at most `most` cursors (and
\* may call it again on a closed connection, where it makes none)
ConnCursor(most) ==
    /\ phase = "connected"
    /\ Len(cursors) < most \/ ~conn_open
    /\ \E r \in {Connection_cursor(conn_open)} :
           /\ cursors' = cursors \o r.made
           /\ calls' = calls \o [i \in 1..Len(r.made) |-> IdleCall]
           /\ ret' = Ret("cursor", 0, r.exc, r.msg, "None", NoneList, <<>>, <<>>, NoReply)
    /\ UNCHANGED <<phase, conn_open, params, canary>>

\* Connection.close()
ConnClose ==
    /\ phase = "connected"
    /\ conn_open' = FALSE
    /\ ret' = Ret("conn.close", 0, "none", "", "None", NoneList, <<>>, <<>>, NoReply)
    /\ UNCHANGED <<phase, params, canary, cursors, calls>>

\* Connection.commit()
ConnCommit ==
    /\ phase = "connected"
    /\ ret' = Ret("commit", 0, "none", "", "None", NoneList, <<>>, <<>>, NoReply)
    /\ UNCHANGED <<phase, conn_open, params, canary, cursors, calls>>

\* Cursor.execute(operation) with the loaded document put on every cursor
\* of the connection
Execute_SharedDocument(c, operation, reply) ==
    /\ c \in CursorIds
    /\ \E r \in {execute(cursors[c], params, operation, reply)} :
           /\ cursors' = [d \in DOMAIN cursors |->
                             IF cursors[d].open THEN r.cur ELSE cursors[d]]
           /\ params' = r.params
           /\ ret' = [Ret("execute", c, r.exc, r.msg, "None", NoneList, <<>>, r.reqs,
                          r.reply) EXCEPT !.operation = operation]
    /\ UNCHANGED <<phase, conn_open, canary, calls>>

\* Cursor.execute(operation)
Execute(c, operation, reply) ==
    /\ c \in CursorIds
    /\ \E r \in {execute(cursors[c], params, operation, reply)} :
           /\ cursors' = [cursors EXCEPT ![c] = r.cur]
           /\ params' = r.params
           /\ ret' = [Ret("execute", c, r.exc, r.msg, "None", NoneList, <<>>, r.reqs,
                          r.reply) EXCEPT !.operation = operation]
    /\ UNCHANGED <<phase, conn_open, canary, calls>>

\* Cursor.executemany(operation, seq_of_parameters) with n parameter sets,
\* each request answered with one of replies
ExecuteMany(c, operation, n, replies) ==
    /\ c \in CursorIds
    /\ \E r \in executemany(cursors[c], params, operation, n, replies) :
          /\ cursors' = [cursors EXCEPT ![c] = r.cur]
          /\ params' = r.params
          /\ ret' = [Ret("executemany", c, r.exc, r.msg, "None", NoneList, <<>>, r.reqs,
                         r.reply) EXCEPT !.operation = operation]
    /\ UNCHANGED <<phase, conn_open, canary, calls>>

\* Cursor.fetchone()
FetchOne(c) ==
    /\ c \in CursorIds
    /\ \E r \in {fetchone(cursors[c])} :
           /\ cursors' = [cursors EXCEPT ![c] = r.cur]
           /\ ret' = Ret("fetchone", c, r.exc, r.msg, "None", r.row, <<>>, <<>>, NoReply)
    /\ UNCHANGED <<phase, conn_open, params, canary, calls>>

\* Cursor.fetchmany(size), or Cursor.fetchmany() when given is FALSE
FetchMany(c, given, size) ==
    /\ c \in CursorIds
    /\ \E r \in {fetchmany(cursors[c], given, size)} :
           /\ cursors' = [cursors EXCEPT ![c] = r.cur]
           /\ ret' = [Ret("fetchmany", c, r.exc, r.msg, "None", NoneList, r.rows, <<>>,
                          NoReply) EXCEPT !.size = IF given THEN size ELSE -1]
    /\ UNCHANGED <<phase, conn_open, params, canary, calls>>

\* Cursor.fetchall()
FetchAll(c) ==
    /\ c \in CursorIds
    /\ \E r \in {fetchall(cursors[c])} :
           /\ cursors' = [cursors EXCEPT ![c] = r.cur]
           /\ ret' = Ret("fetchall", c, r.exc, r.msg, "None", NoneList, r.rows, <<>>, NoReply)
    /\ UNCHANGED <<phase, conn_open, params, canary, calls>>

\* Cursor.nextset()
NextSet(c) ==
    /\ c \in CursorIds
    /\ \E r \in {nextset(cursors[c])} :
           /\ cursors' = [cursors EXCEPT ![c] = r.cur]
           /\ ret' = Ret("nextset", c, r.exc,
                         IF r.exc = "InternalError" THEN "pydbrelay Cursor is closed." ELSE "",
                         r.val, NoneList, <<>>, <<>>, NoReply)
    /\ UNCHANGED <<phase, conn_open, params, canary, calls>>

\* Cursor.setinputsizes()
SetInputSizes(c) ==
    /\ c \in CursorIds
    /\ ret' = Ret("setinputsizes", c, assertOpen(cursors[c]),
                  IF cursors[c].open THEN "" ELSE "pydbrelay Cursor is closed.",
                  "None", NoneList, <<>>, <<>>, NoReply)
    /\ UNCHANGED <<phase, conn_open, params, canary, cursors, calls>>

\* Cursor.setoutputsize(size)
SetOutputSize(c) ==
    /\ c \in CursorIds
    /\ ret' = Ret("setoutputsize", c, assertOpen(cursors[c]),
                  IF cursors[c].open THEN "" ELSE "pydbrelay Cursor is closed.",
                  "None", NoneList, <<>>, <<>>, NoReply)
    /\ UNCHANGED <<phase, conn_open, params, canary, cursors, calls>>

\* Cursor.close()
Close(c) ==
    /\ c \in CursorIds
    /\ cursors' = [cursors EXCEPT ![c] = close(cursors[c])]
    /\ ret' = Ret("close", c, "none", "", "None", NoneList, <<>>, <<>>, NoReply)
    /\ UNCHANGED <<phase, conn_open, params, canary, calls>>

Next ==
    \/ \E reply \in Replies : Connect(reply)
    \/ ConnCursor(1)
    \/ ConnClose
    \/ ConnCommit
    \/ \E c \in CursorIds, operation \in Operations, reply \in Replies :
          Execute(c, operation, reply)
    \/ \E c \in CursorIds, operation \in Operations, n \in 0..MaxBatch :
          ExecuteMany(c, operation, n, Replies)
    \/ \E c \in CursorIds : FetchOne(c)
    \/ \E c \in CursorIds, size \in 0..MaxFetch : FetchMany(c, TRUE, size)
    \/ \E c \in CursorIds : FetchMany(c, FALSE, 0)
    \/ \E c \in CursorIds : FetchAll(c)
    \/ \E c \in CursorIds : NextSet(c)
    \/ \E c \in CursorIds : SetInputSizes(c)
    \/ \E c \in CursorIds : SetOutputSize(c)
    \/ \E c \in CursorIds : Close(c)

Spec == Init /\ [][Next]_vars

\* ------------------------------------------------------------------------
\* Two threads, each with a cursor of the same Connection, inside execute
\* ------------------------------------------------------------------------

\* the statements the two threads execute and the relay's answers to them
SecondSql == "select 2 as b"
RaceOperations == {CanarySql, SecondSql}
RS_One == [fields |-> <<Field("a", "int")>>, rows |-> << <<Cell("a", IntV(1))>> >>]
RS_Two == [fields |-> <<Field("b", "int")>>, rows |-> << <<Cell("b", IntV(2))>> >>]

\* a relay that answers each statement with that statement's result
RelayAnswer(sql) ==
    IF sql = SqlText("pydbrelay", CanarySql)
    THEN JsonReply(JsonOf(EmptyLog, SomeList(<<RS_One>>)))
    ELSE IF sql = SqlText("pydbrelay", SecondSql)
    THEN JsonReply(JsonOf(EmptyLog, SomeList(<<RS_Two>>)))
    ELSE JsonReply(JsonOf(ErrorLog("bad sql"), NoneList))

\* a map private to the call: the sql entry is the call's own statement
SentMap_PrivateCopy(shared, call) ==
    [shared EXCEPT !.sql = SqlText(shared.connection_name, call.operation)]

\* the map urllib.urlencode(params) reads: self.conn.params, the
\* connection's one map, as it is when the call gets there
SentMap(shared, call) == shared

\* Cursor.execute up to the write of params['sql']: _assertOpen, then the
\* entry is overwritten in the connection's map
ExecuteWrite(c, operation) ==
    /\ c \in CursorIds
    /\ calls[c].pc = "idle"
    /\ IF ~cursors[c].open
       THEN /\ ret' = [Ret("execute", c, "InternalError", "pydbrelay Cursor is closed.",
                           "None", NoneList, <<>>, <<>>, NoReply)
                          EXCEPT !.operation = operation]
            /\ UNCHANGED <<params, calls>>
       ELSE /\ params' = [params EXCEPT !.sql = SqlText(params.connection_name, operation)]
            /\ calls' = [calls EXCEPT ![c] = [pc |-> "send", operation |-> operation]]
            /\ UNCHANGED ret
    /\ UNCHANGED <<phase, conn_open, canary, cursors>>

\* the rest of Cursor.execute: the map is encoded and sent, and the relay's
\* answer to the statement it carries is loaded
ExecuteSend(c) ==
    /\ c \in CursorIds
    /\ calls[c].pc = "send"
    /\ \E r \in {ExecuteSent(cursors[c], SentMap(params, calls[c]),
                             RelayAnswer(SentMap(params, calls[c]).sql))} :
           /\ cursors' = [cursors EXCEPT ![c] = r.cur]
           /\ ret' = [Ret("execute", c, r.exc, r.msg, "None", NoneList, <<>>, r.reqs,
                          r.reply) EXCEPT !.operation = calls[c].operation]
    /\ calls' = [calls EXCEPT ![c] = IdleCall]
    /\ UNCHANGED <<phase, conn_open, params, canary>>

\* two cursors of one Connection, each used by its own thread; a thread
\* makes one call at a time on its cursor
NextRace ==
    \/ Connect(RelayAnswer(SqlText("pydbrelay", CanarySql)))
    \/ ConnCursor(2)
    \/ \E c \in CursorIds, operation \in RaceOperations : ExecuteWrite(c, operation)
    \/ \E c \in CursorIds : ExecuteSend(c)
    \/ \E c \in CursorIds : calls[c].pc = "idle" /\ FetchOne(c)
    \/ \E c \in CursorIds : calls[c].pc = "idle" /\ NextSet(c)
    \/ \E c \in CursorIds : calls[c].pc = "idle" /\ Close(c)

SpecRace == Init /\ [][NextRace]_vars

\* ------------------------------------------------------------------------
\* Date and time values through a cursor
\* ------------------------------------------------------------------------

\* the texts the relay sends for a time and for a date
TimeText == <<"1", "3", ":", "0", "5", ":", "0", "7">>
DateText == <<"2", "0", "2", "0", "-", "0", "1", "-", "0", "5">>

\* fractional-second digit strings of 1 to 6 digits; <<>>: no fraction
Fractions ==
    {<<>>, <<"0">>, <<"2">>, <<"5">>, <<"2", "5">>, <<"0", "5">>, <<"2", "5", "0">>,
     <<"0", "0", "5">>, <<"1", "2", "3", "4">>, <<"0", "1", "2", "3", "4">>,
     <<"1", "2", "3", "4", "5", "6">>, <<"0", "0", "0", "0", "0", "1">>,
     <<"0", "0", "0", "0", "0", "0">>}

WithFraction(text, frac) == IF frac = <<>> THEN text ELSE text \o <<".">> \o frac

\* the text of a value of wire type tag with the fraction frac
TemporalText(tag, frac) ==
    IF tag = "time" THEN WithFraction(TimeText, frac)
    ELSE WithFraction(DateText \o <<" ">> \o TimeText, frac)

\* a result set of one column t of wire type tag and one row
RS_T(tag, frac) ==
    [fields |-> <<Field("t", tag)>>,
     rows |-> << <<Cell("t", StrV(TemporalText(tag, frac)))>> >>]

TemporalTags == DATETIME_values \ {"date"}

\* a connection and a cursor on which execute has returned for the reply
CoerceStart(e, c) ==
    /\ phase = "connected"
    /\ conn_open = TRUE
    /\ params = e.params
    /\ canary = <<c.canary>>
    /\ cursors = <<e.cur>>
    /\ calls = <<IdleCall>>
    /\ ret = [Ret("execute", 1, e.exc, e.msg, "None", NoneList, <<>>, e.reqs, e.reply)
                 EXCEPT !.operation = "select 2"]

\* after connect(), cursor() and an execute answered with one date or time
\* value
InitCoerce ==
    \E tag \in TemporalTags, frac \in Fractions :
        CoerceStart(execute(NewCursor, ConnectParams, "select 2",
                            JsonReply(JsonOf(EmptyLog, SomeList(<<RS_T(tag, frac)>>)))),
                    Connection_init(JsonReply(JsonOf(EmptyLog, SomeList(<<RS_A>>)))))

NextCoerce ==
    \/ FetchOne(1)
    \/ FetchAll(1)
    \/ NextSet(1)
    \/ Close(1)

SpecCoerce == InitCoerce /\ [][NextCoerce]_vars

\* ------------------------------------------------------------------------
\* Two cursors of one Connection, used one call at a time
\* ------------------------------------------------------------------------

\* the relay's answers here: the example's result set, two result sets, a
\* reported error, and a failed exchange
TwoReplies ==
    {JsonReply(JsonOf(EmptyLog, SomeList(<<RS_A>>))),
     JsonReply(JsonOf(EmptyLog, SomeList(<<RS_E, RS_One>>))),
     JsonReply(JsonOf(ErrorLog("bad sql"), NoneList)),
     TransportFailure}

NextTwo ==
    \/ \E reply \in TwoReplies : Connect(reply)
    \/ ConnCursor(2)
    \/ \E c \in CursorIds, operation \in Operations, reply \in TwoReplies :
          Execute(c, operation, reply)
    \/ \E c \in CursorIds, operation \in Operations, n \in 0..MaxBatch :
          ExecuteMany(c, operation, n, TwoReplies)
    \/ \E c \in CursorIds : FetchOne(c)
    \/ \E c \in CursorIds, size \in 0..MaxFetch : FetchMany(c, TRUE, size)
    \/ \E c \in CursorIds : FetchAll(c)
    \/ \E c \in CursorIds : NextSet(c)
    \/ \E c \in CursorIds : Close(c)

SpecTwo == Init /\ [][NextTwo]_vars

\* ------------------------------------------------------------------------
\* What the specification expects of a fetched row
\* ------------------------------------------------------------------------

\* the microseconds of a fractional-second digit string: the digits
\* right-padded with zeros to 6 and read as a number
ExpectedMicro(frac) == PyInt(LJustZero(frac, 6))

\* the date and time formats of section 4.1, for well-formed text
ExpectedDateTime(text, tag) ==
    IF tag = "date"
    THEN DateV("date", [i \in 1..3 |-> PyInt(ReSplit(text, {"-"})[i])])
    ELSE IF tag = "time"
    THEN DateV("time",
               [i \in 1..4 |->
                  IF i = 4 THEN ExpectedMicro(ExtendZero(ReSplit(text, {":", "."}), 4)[4])
                  ELSE PyInt(ExtendZero(ReSplit(text, {":", "."}), 4)[i])])
    ELSE DateV("datetime",
               [i \in 1..7 |->
                  IF i = 7
                  THEN ExpectedMicro(ExtendZero(ReSplit(text, {"-", " ", ":", "."}), 7)[7])
                  ELSE PyInt(ExtendZero(ReSplit(text, {"-", " ", ":", "."}), 7)[i])])

\* coerce(rawValue, wireTypeName) of section 4.1: null first, then the
\* category of the tag, and identity for a tag of no category
ExpectedCoerce(raw, tag) ==
    IF raw.tag = "null" \/ tag = "null" THEN NoneV
    ELSE IF tag \in {"char", "guid", "text", "varchar", "wchar", "wvarchar"} THEN PyStr(raw)
    ELSE IF tag \in {"binary", "blob", "enum", "geometry", "image", "money", "smallmoney",
                     "varbinary"} THEN PyStr(raw)
    ELSE IF tag \in {"decimal", "numeric"} THEN DecV(PyStr(raw).s)
    ELSE IF tag \in {"date", "time", "datetime", "smalldatetime", "timestamp"}
    THEN ExpectedDateTime(raw.s, tag)
    ELSE raw

\* the k-th row of result set rs: its values in field order, each coerced by
\* its field's wire type
ExpectedRow(rs, k) ==
    [i \in 1..Len(rs.fields) |->
        ExpectedCoerce(Lookup(rs.rows[k], rs.fields[i].name), rs.fields[i].sql_type)]

\* the rows from+1 .. to of rs, as a fetch returns them
ExpectedRows(rs, from, to) ==
    [j \in 1..(to - from) |-> SomeList(ExpectedRow(rs, from + j))]

\* cursor cur is open on a document and its result-set index names one of
\* the document's result sets
HasCurrent(cur) ==
    /\ cur.open
    /\ cur.loaded
    /\ cur.json.hasData
    /\ 0 <= cur.set_idx
    /\ cur.set_idx < Len(cur.json.data)

\* the current result set of such a cursor
CurrentSet(cur) == cur.json.data[cur.set_idx + 1]

\* the number of result sets of a JSON tree
SetCount(json) == IF json.hasData THEN Len(json.data) ELSE 0

\* the last call was op on cursor c
Called(r, op, c) == r.op = op /\ r.c = c

\* ------------------------------------------------------------------------
\* Claims
\* ------------------------------------------------------------------------

\* a response with a "data" array and no "error" in a "log" member
SuccessShaped(json) == ~json.falsy /\ json.hasData /\ ~(json.hasLog /\ json.hasError)

\* C1: for a response that has a data array and no error, with or without a
\* log member, execute returns without raising and loads the first result
\* set, and a fetchall that follows returns every row of that result set in
\* the original order.
C1_SuccessExecuteThenFetchall ==
    [][\A c \in DOMAIN cursors :
          /\ (/\ Called(ret', "execute", c)
              /\ ret'.reply.kind = "json"
              /\ SuccessShaped(ret'.reply.json))
             => /\ ret'.exc = "none"
                /\ cursors'[c].loaded
                /\ cursors'[c].json = ret'.reply.json
                /\ ret'.reply.json.data # <<>>
                   => cursors'[c].set_idx = 0 /\ cursors'[c].row_idx = 0
          /\ (/\ Called(ret, "execute", c)
              /\ ret.reply.kind = "json"
              /\ SuccessShaped(ret.reply.json)
              /\ ret.reply.json.data # <<>>
              /\ Called(ret', "fetchall", c))
             => /\ ret'.exc = "none"
                /\ ret'.rows = ExpectedRows(ret.reply.json.data[1], 0,
                                            Len(ret.reply.json.data[1].rows))]_vars

\* C2: whenever the response has a log object with an error key, execute
\* raises DatabaseError with the relay's message, whatever the message and
\* whether or not the response has a data array.
C2_ErrorAlwaysRaised ==
    (/\ ret.op = "execute"
     /\ ret.reply.kind = "json"
     /\ ~ret.reply.json.falsy
     /\ ret.reply.json.hasLog
     /\ ret.reply.json.hasError)
    => (ret.exc = "DatabaseError" /\ ret.msg = ret.reply.json.error)

\* C3: after execute raised DatabaseError for an error the document reports,
\* no result set is loaded: the fetch that follows returns no row and the
\* nextset that follows loads no result set.
C3_NothingLoadedAfterError ==
    [][\A c \in DOMAIN cursors :
          (Called(ret, "execute", c) /\ ret.exc = "DatabaseError")
          => /\ Called(ret', "fetchone", c) => (ret'.exc # "none" \/ ret'.row.isNone)
             /\ Called(ret', "fetchmany", c) => ret'.rows = <<>>
             /\ Called(ret', "fetchall", c) => ret'.rows = <<>>
             /\ Called(ret', "nextset", c)
                => (ret'.val # "True" /\ cursors'[c].set_idx = cursors[c].set_idx)]_vars

\* C4: on a current result set of n rows, a fetchone at row index k-1 < n
\* returns the k-th row, its values in field order and coerced by wire type,
\* and advances the row index by one; at row index n or beyond it returns
\* null without raising and leaves the cursor as it is.
C4_FetchoneWalksRows ==
    [][\A c \in DOMAIN cursors :
          (Called(ret', "fetchone", c) /\ HasCurrent(cursors[c]) /\ cursors[c].row_idx >= 0)
          => IF cursors[c].row_idx < Len(CurrentSet(cursors[c]).rows)
             THEN /\ ret'.exc = "none"
                  /\ ret'.row = SomeList(ExpectedRow(CurrentSet(cursors[c]),
                                                     cursors[c].row_idx + 1))
                  /\ cursors'[c] = [cursors[c] EXCEPT !.row_idx = cursors[c].row_idx + 1]
             ELSE /\ ret'.exc = "none"
                  /\ ret'.row = NoneList
                  /\ cursors'[c] = cursors[c]]_vars

\* the rows left in the current result set of cursor cur
Remaining(cur) ==
    IF cur.row_idx >= Len(CurrentSet(cur).rows) THEN 0
    ELSE Len(CurrentSet(cur).rows) - cur.row_idx

\* C5: fetchmany(size) with r rows remaining returns exactly min(size, r)
\* rows, the next ones in order with no null entry, and advances the row
\* index by the number of rows returned; without size it uses arraysize.
C5_FetchmanyNextRows ==
    [][\A c \in DOMAIN cursors :
          (Called(ret', "fetchmany", c) /\ HasCurrent(cursors[c]) /\ cursors[c].row_idx >= 0)
          => \E m \in {Min2(IF ret'.size < 0 THEN cursors[c].arraysize ELSE ret'.size,
                            Remaining(cursors[c]))} :
                /\ ret'.exc = "none"
                /\ ret'.rows = ExpectedRows(CurrentSet(cursors[c]), cursors[c].row_idx,
                                            cursors[c].row_idx + m)
                /\ cursors'[c] = [cursors[c] EXCEPT !.row_idx = cursors[c].row_idx + m]]_vars

\* C6: fetchall returns the rows from the row index to the last row in
\* order, for every field layout, and leaves the result set exhausted: the
\* fetchall that follows returns an empty list and the fetchone null.
C6_FetchallReturnsRest ==
    [][\A c \in DOMAIN cursors :
          /\ (Called(ret', "fetchall", c) /\ HasCurrent(cursors[c]) /\ cursors[c].row_idx >= 0)
             => /\ ret'.exc = "none"
                /\ ret'.rows = ExpectedRows(CurrentSet(cursors[c]), cursors[c].row_idx,
                                            cursors[c].row_idx + Remaining(cursors[c]))
                /\ cursors'[c].row_idx >= Len(CurrentSet(cursors[c]).rows)
          /\ (Called(ret, "fetchall", c) /\ ret.exc = "none" /\ HasCurrent(cursors[c]))
             => /\ Called(ret', "fetchall", c) => (ret'.exc = "none" /\ ret'.rows = <<>>)
                /\ Called(ret', "fetchone", c) => (ret'.exc = "none" /\ ret'.row = NoneList)]_vars

\* the cursor holds no document, or one with zero result sets
NoResultSets(cur) == ~cur.loaded \/ SetCount(cur.json) = 0

\* C7: fetchone on an open cursor with no document, or with a document of
\* zero result sets, raises Error and leaves the cursor's document, indices
\* and description unchanged.
C7_FetchoneWithoutResultRaises ==
    [][\A c \in DOMAIN cursors :
          (Called(ret', "fetchone", c) /\ cursors[c].open /\ NoResultSets(cursors[c]))
          => (ret'.exc = "Error" /\ cursors'[c] = cursors[c])]_vars

\* a fetchone has raised Error on a document with an empty data array
C7_Witness ==
    /\ ret.op = "fetchone"
    /\ ret.exc = "Error"
    /\ ret.c \in DOMAIN cursors
    /\ cursors[ret.c].loaded
    /\ cursors[ret.c].json.hasData
    /\ cursors[ret.c].json.data = <<>>

\* the description has one entry per field of rs, in field order, with the
\* field's name, precision and scale
DescribesFields(cur, rs) ==
    /\ cur.hasDesc
    /\ Len(cur.description) = Len(rs.fields)
    /\ \A i \in 1..Len(rs.fields) :
          /\ cur.description[i].name = rs.fields[i].name
          /\ cur.description[i].precision =
                (IF rs.fields[i].hasPrecision THEN SomeInt(rs.fields[i].precision) ELSE NoneInt)
          /\ cur.description[i].scale =
                (IF rs.fields[i].hasScale THEN SomeInt(rs.fields[i].scale) ELSE NoneInt)

\* C8: with N >= 1 result sets and result-set index i < N-1, nextset returns
\* true, moves to result set i+1 at row 0 and rebuilds the description from
\* its fields, so that the fetchone that follows returns the first row of
\* result set i+1; without an execute the result-set index never decreases.
C8_NextsetAdvances ==
    [][\A c \in DOMAIN cursors :
          /\ (/\ Called(ret', "nextset", c)
              /\ cursors[c].open
              /\ cursors[c].loaded
              /\ cursors[c].set_idx < SetCount(cursors[c].json) - 1)
             => /\ ret'.exc = "none"
                /\ ret'.val = "True"
                /\ cursors'[c].set_idx = cursors[c].set_idx + 1
                /\ cursors'[c].row_idx = 0
                /\ cursors'[c].json = cursors[c].json
                /\ DescribesFields(cursors'[c], CurrentSet(cursors'[c]))
          /\ (/\ Called(ret, "nextset", c)
              /\ ret.val = "True"
              /\ Called(ret', "fetchone", c)
              /\ CurrentSet(cursors[c]).rows # <<>>)
             => /\ ret'.exc = "none"
                /\ ret'.row = SomeList(ExpectedRow(CurrentSet(cursors[c]), 1))
          /\ (ret'.c = c /\ ret'.op \notin {"execute", "executemany"})
             => cursors'[c].set_idx >= cursors[c].set_idx]_vars

\* C9: nextset on an open cursor with no document, with a document of zero
\* result sets, or with the result-set index at the last result set returns
\* null and changes nothing, call after call.
C9_NextsetAtEndIsNoop ==
    [][\A c \in DOMAIN cursors :
          (/\ Called(ret', "nextset", c)
           /\ cursors[c].open
           /\ \/ NoResultSets(cursors[c])
              \/ cursors[c].set_idx = SetCount(cursors[c].json) - 1)
          => /\ ret'.exc = "none"
             /\ ret'.val = "None"
             /\ cursors' = cursors
             /\ params' = params]_vars

\* a nextset has returned null at the last of several result sets
C9_Witness ==
    /\ ret.op = "nextset"
    /\ ret.exc = "none"
    /\ ret.val = "None"
    /\ ret.c \in DOMAIN cursors
    /\ cursors[ret.c].open
    /\ cursors[ret.c].loaded
    /\ SetCount(cursors[ret.c].json) = 3
    /\ cursors[ret.c].set_idx = 2

\* the calls that test the cursor's open flag
GuardedCalls == {"execute", "executemany", "fetchone", "fetchmany", "fetchall", "nextset",
                 "setinputsizes", "setoutputsize"}

\* C10: on a closed cursor, each of execute, executemany, fetchone,
\* fetchmany, fetchall, nextset, setinputsizes and setoutputsize raises
\* InternalError, sends no request to the relay and leaves the cursor and
\* the connection's parameter map unchanged.
C10_ClosedCursorRaises ==
    [][\A c \in DOMAIN cursors :
          (ret'.c = c /\ ret'.op \in GuardedCalls /\ ~cursors[c].open)
          => /\ ret'.exc = "InternalError"
             /\ ret'.reqs = <<>>
             /\ cursors' = cursors
             /\ params' = params]_vars

\* an execute has raised InternalError on a closed cursor that had run a
\* statement before
C10_Witness ==
    /\ ret.op = "execute"
    /\ ret.exc = "InternalError"
    /\ ret.c \in DOMAIN cursors
    /\ ~cursors[ret.c].open
    /\ params.sql = SqlText("pydbrelay", "select 2")


\* C11: close neither raises nor leaves a document or a description on the
\* cursor and marks it closed, from every cursor state; close on a closed
\* cursor changes nothing; and no call makes a closed cursor open again.
C11_CloseIsTerminal ==
    [][\A c \in DOMAIN cursors :
          /\ Called(ret', "close", c)
             => /\ ret'.exc = "none"
                /\ ~cursors'[c].open
                /\ ~cursors'[c].loaded
                /\ cursors'[c].json = EmptyJson
                /\ ~cursors'[c].hasDesc
          /\ (Called(ret', "close", c) /\ ~cursors[c].open)
             => (cursors' = cursors /\ params' = params)
          /\ ~cursors[c].open => ~cursors'[c].open]_vars

\* a close has acted on a cursor that had moved to the third result set of
\* its document
C11_Witness ==
    /\ ret.op = "close"
    /\ ret.exc = "none"
    /\ ret.c \in DOMAIN cursors
    /\ ~cursors[ret.c].open
    /\ cursors[ret.c].set_idx = 2


\* the canary statement failed: the exchange or the JSON decoding failed,
\* the response is empty, it reports an error, or it has no result set
CanaryFailed(reply) ==
    \/ reply.kind # "json"
    \/ reply.json.falsy
    \/ (reply.json.hasLog /\ reply.json.hasError /\ reply.json.error # "")
    \/ SetCount(reply.json) = 0

\* C12: connect() raises nothing but DatabaseError("Unable to connect to
\* database."), raises it for every failure of the canary statement (an
\* error the relay reports, a response with zero result sets, a failure of
\* the exchange, a malformed or empty response), and leaves the canary
\* cursor closed whether it returns or raises.
C12_CanaryFailureIsDatabaseError ==
    ret.op = "connect"
    => /\ ret.exc \in {"none", "DatabaseError"}
       /\ ret.exc = "DatabaseError" => ret.msg = "Unable to connect to database."
       /\ CanaryFailed(ret.reply) => ret.exc = "DatabaseError"
       /\ canary # <<>>
       /\ ~canary[1].open


\* C13: Connection.close() never raises and leaves every cursor as it is,
\* also when the connection is closed already; after it every cursor()
\* call raises Error and makes no cursor; and on a closed connection an
\* open cursor made before still sends its execute to the relay, loads the
\* first result set of a response without error, and fetches its first row.
C13_ClosedConnectionKeepsCursors ==
    [][/\ ret'.op = "conn.close"
          => (ret'.exc = "none" /\ ~conn_open' /\ cursors' = cursors /\ params' = params)
       /\ (ret'.op = "cursor" /\ ~conn_open)
          => (ret'.exc = "Error" /\ cursors' = cursors /\ ~conn_open')
       /\ \A c \in DOMAIN cursors :
             /\ (~conn_open /\ cursors[c].open /\ Called(ret', "execute", c))
                => /\ Len(ret'.reqs) = 1
                   /\ (/\ ret'.reply.kind = "json"
                       /\ ~ret'.reply.json.falsy
                       /\ ret'.reply.json.hasLog
                       /\ ~ret'.reply.json.hasError
                       /\ SetCount(ret'.reply.json) >= 1)
                      => (ret'.exc = "none" /\ cursors'[c].set_idx = 0)
             /\ (/\ ~conn_open
                 /\ HasCurrent(cursors[c])
                 /\ CurrentSet(cursors[c]) = RS_A
                 /\ cursors[c].row_idx = 0
                 /\ Called(ret', "fetchone", c))
                => (ret'.exc = "none" /\ ret'.row = SomeList(<<IntV(1)>>))
             /\ (~conn_open /\ ret'.op # "close") => cursors'[c].open = cursors[c].open]_vars

\* on a closed connection a cursor made before has run a statement and
\* loaded its first result set
C13_Witness ==
    /\ phase = "connected"
    /\ ~conn_open
    /\ ret.op = "execute"
    /\ ret.exc = "none"
    /\ ret.c \in DOMAIN cursors
    /\ cursors[ret.c].open
    /\ cursors[ret.c].set_idx = 0


\* C14: with execute split into the write of the sql entry and the sending
\* of the encoded map, a request carries the sql entry of the connection's
\* one map as it is when the request is sent, the text of whichever cursor
\* wrote last, and the cursor loads the relay's answer to that text; so a
\* cursor can send the other cursor's statement and load its result.
C14_RequestCarriesSharedMap ==
    [][\A c \in DOMAIN cursors :
          (calls[c].pc = "send" /\ calls'[c].pc = "idle")
          => /\ Called(ret', "execute", c)
             /\ ret'.operation = calls[c].operation
             /\ ret'.reqs = <<params>>
             /\ ret'.reply = RelayAnswer(params.sql)
             /\ ret'.exc = "none"
             /\ cursors'[c].json = RelayAnswer(params.sql).json
             /\ cursors'[c].set_idx = 0]_vars

\* a cursor that executed "select 2 as b" has sent "select 1 as a", the
\* other cursor's statement, and holds that statement's result set
C14_Witness ==
    /\ ret.op = "execute"
    /\ ret.exc = "none"
    /\ ret.operation = SecondSql
    /\ Len(ret.reqs) = 1
    /\ ret.reqs[1].sql = <<"-- ", "pydbrelay", "\n", CanarySql>>
    /\ ret.c \in DOMAIN cursors
    /\ HasCurrent(cursors[ret.c])
    /\ CurrentSet(cursors[ret.c]) = RS_One
    /\ \E d \in DOMAIN cursors : d # ret.c /\ calls[d].pc = "send"
                                         /\ calls[d].operation = CanarySql


\* the description section 3 gives for result set rs: per field the tuple
\* (name, wireType, null, null, precision, scale)
DescribesFull(cur, rs) ==
    /\ DescribesFields(cur, rs)
    /\ \A i \in 1..Len(rs.fields) :
          /\ cur.description[i].type_code = SomeStr(rs.fields[i].sql_type)
          /\ cur.description[i].display_size = NoneInt
          /\ cur.description[i].internal_size = NoneInt

\* C15: when an execute or a nextset has loaded a result set, the
\* description is one tuple per field of that result set, in field order:
\* the field's name, its sql_type, null, null, and its precision and scale
\* or null where the relay omitted them.
C15_DescriptionOfLoadedSet ==
    [][\A c \in DOMAIN cursors :
          (/\ ret'.c = c
           /\ ret'.exc = "none"
           /\ \/ (ret'.op = "nextset" /\ ret'.val = "True")
              \/ (ret'.op = "execute" /\ SetCount(ret'.reply.json) >= 1))
          => /\ HasCurrent(cursors'[c])
             /\ DescribesFull(cursors'[c], CurrentSet(cursors'[c]))]_vars


\* the wire type tags of the five categories
CategoryTags ==
    NUMBER_values \cup STRING_values \cup DATETIME_values \cup BINARY_values
        \cup ROWID_values

\* row k of result set rs has a value that is not null in a column whose
\* tag is in no category and is not "null"
HasUncategorised(rs, k) ==
    \E i \in 1..Len(rs.fields) :
        /\ rs.fields[i].sql_type \notin CategoryTags \cup {"null"}
        /\ Lookup(rs.rows[k], rs.fields[i].name).tag # "null"

\* C16: a fetchone whose row has a non-null value in a column with a wire
\* type tag of no category (such as "smallint") returns the row without
\* raising, that value unchanged.
C16_UncategorisedTagIsIdentity ==
    [][\A c \in DOMAIN cursors :
          (/\ Called(ret', "fetchone", c)
           /\ HasCurrent(cursors[c])
           /\ cursors[c].row_idx >= 0
           /\ cursors[c].row_idx < Len(CurrentSet(cursors[c]).rows)
           /\ HasUncategorised(CurrentSet(cursors[c]), cursors[c].row_idx + 1))
          => /\ ret'.exc = "none"
             /\ ~ret'.row.isNone
             /\ \A i \in 1..Len(CurrentSet(cursors[c]).fields) :
                   CurrentSet(cursors[c]).fields[i].sql_type \notin CategoryTags \cup {"null"}
                   => ret'.row.list[i] =
                         Lookup(CurrentSet(cursors[c]).rows[cursors[c].row_idx + 1],
                                CurrentSet(cursors[c]).fields[i].name)]_vars


\* the fractional-second digit string of a time or datetime text ("0" when
\* the text has none) and the microsecond component of a coerced value
FractionOf(text, tag) ==
    IF tag = "time" THEN ExtendZero(ReSplit(text, {":", "."}), 4)[4]
    ELSE ExtendZero(ReSplit(text, {"-", " ", ":", "."}), 7)[7]
MicroOf(v) == v.parts[Len(v.parts)]

\* C17: for wire type time and for the other datetime tags, the microsecond
\* component of the fetched value is the fractional-second digit string of
\* the text right-padded with zeros to 6 digits and read as a number, for
\* fractions of 1 to 6 digits with or without leading zeros; a text with no
\* fraction gives 0.
C17_MicrosecondsArePadded ==
    [][(/\ Called(ret', "fetchone", 1)
        /\ HasCurrent(cursors[1])
        /\ cursors[1].row_idx = 0
        /\ CurrentSet(cursors[1]).fields[1].sql_type \in TemporalTags)
       => /\ ret'.exc = "none"
          /\ ~ret'.row.isNone
          /\ MicroOf(ret'.row.list[1]) =
                ExpectedMicro(FractionOf(CurrentSet(cursors[1]).rows[1][1].v.s,
                                         CurrentSet(cursors[1]).fields[1].sql_type))]_vars


\* C18: after an execute that returned, the cursor holds the new document
\* and nothing of the statement before: with at least one result set the
\* result-set index and the row index are 0 and the description is that of
\* the first result set; with zero result sets the result-set index is -1
\* and there is no description.
C18_ExecuteResets ==
    [][\A c \in DOMAIN cursors :
          (Called(ret', "execute", c) /\ ret'.exc = "none")
          => /\ cursors'[c].loaded
             /\ cursors'[c].json = ret'.reply.json
             /\ IF SetCount(ret'.reply.json) >= 1
                THEN /\ cursors'[c].set_idx = 0
                     /\ cursors'[c].row_idx = 0
                     /\ DescribesFields(cursors'[c], ret'.reply.json.data[1])
                ELSE /\ cursors'[c].set_idx = -1
                     /\ ~cursors'[c].hasDesc]_vars


\* the calls on a cursor that never reach the relay
LocalCalls == {"fetchone", "fetchmany", "fetchall", "nextset", "close"}

\* C19: with the execute calls one after the other, an execute on an open
\* cursor sends exactly one request, the connection's map, whose sql entry
\* is the line "-- <connection_name>", a newline and the operation, and
\* changes nothing of the map but that entry; the other entries are those
\* given at connect; fetchone, fetchmany, fetchall, nextset and close send
\* nothing and leave the map alone.
C19_ExecuteRewritesOnlySql ==
    [][/\ \A c \in DOMAIN cursors :
             (Called(ret', "execute", c) /\ cursors[c].open)
             => /\ Len(ret'.reqs) = 1
                /\ ret'.reqs[1].sql = <<"-- ", params.connection_name, "\n", ret'.operation>>
                /\ ret'.reqs[1] = params'
                /\ params' = [params EXCEPT !.sql = ret'.reqs[1].sql]
       /\ phase' = "connected"
          => /\ params'.sql_server = "server"
             /\ params'.sql_database = "db"
             /\ params'.sql_user = "user"
             /\ params'.sql_password = "secret"
             /\ params'.connection_name = "pydbrelay"
             /\ params'.http_keepalive = 0
       /\ ret'.op = "executemany"
          => \A i \in 1..Len(ret'.reqs) :
                ret'.reqs[i] = [params EXCEPT !.sql = <<"-- ", params.connection_name, "\n",
                                                        ret'.operation>>]
       /\ ret'.op \in LocalCalls => (ret'.reqs = <<>> /\ params' = params)]_vars

\* an execute whose exchange failed has sent its one request and left its
\* statement in the map
C19_Witness ==
    /\ ret.op = "execute"
    /\ ret.exc = "URLError"
    /\ ret.operation = "select 2"
    /\ Len(ret.reqs) = 1
    /\ params.sql = <<"-- ", "pydbrelay", "\n", "select 2">>
    /\ params.sql_password = "secret"


\* the calls on a cursor
CursorCalls == {"execute", "executemany", "fetchone", "fetchmany", "fetchall", "nextset",
                "close"}

\* C20: with the calls made one after the other, a call on one cursor
\* (execute, executemany, fetchone, fetchmany, fetchall, nextset, close)
\* leaves every other cursor of the same Connection as it is: its document,
\* result-set index, row index, description and open flag.
C20_CursorsAreIsolated ==
    [][\A c \in DOMAIN cursors, d \in DOMAIN cursors :
          (ret'.c = c /\ ret'.op \in CursorCalls /\ d # c)
          => /\ cursors'[d].loaded = cursors[d].loaded
             /\ cursors'[d].json = cursors[d].json
             /\ cursors'[d].set_idx = cursors[d].set_idx
             /\ cursors'[d].row_idx = cursors[d].row_idx
             /\ cursors'[d].hasDesc = cursors[d].hasDesc
             /\ cursors'[d].description = cursors[d].description
             /\ cursors'[d].open = cursors[d].open]_vars

\* the second cursor has run a statement and loaded two result sets while
\* the first cursor stands after the first row of the example's result set
C20_Witness ==
    /\ Len(cursors) = 2
    /\ ret.op = "execute"
    /\ ret.c = 2
    /\ ret.exc = "none"
    /\ HasCurrent(cursors[2])
    /\ SetCount(cursors[2].json) = 2
    /\ HasCurrent(cursors[1])
    /\ CurrentSet(cursors[1]) = RS_A
    /\ cursors[1].row_idx = 1

====
